---- MODULE Spec2Model ----
(***************************************************************************)
(* Model of PlottingFramework's PlottingTools (src/src/PlottingTools.cxx): *)
(* GeneratePlot's pad / series / box loops, CutHistogram and CutGraph.     *)
(*                                                                         *)
(* Strings that the code searches and edits (the drawing options) are      *)
(* sequences of option tokens; find("x") is membership of token "x",       *)
(* erase(find("x"), len) removes its first occurrence.                     *)
(***************************************************************************)
EXTENDS Integers, Sequences, FiniteSets, TLC

\* ------------------------------------------------------------- bounds
MaxPads == 2      \* pads of a style / pads a plot requires
MaxSeries == 3    \* series declared in one pad
MaxBoxes == 2     \* boxes declared in one pad
MaxListLen == 2   \* length of the cyclic default lists
MaxBins == 3      \* regular bins of a histogram
MaxPoints == 3    \* points of a graph
MaxEntries == 3   \* entries of a legend
MaxLinked == 2    \* pads in a list of linked pads
MaxTextLen == 8   \* characters of a text box's text

\* ------------------------------------------------------ program constants
CutDisabledBelow == -997   \* "if(cutoff < -997)": a cutoff below it disables the side

VARIABLES
  focus,          \* which inputs a run draws: "pads", "style", ... (fixed by Init)
  pc,             \* position in GeneratePlot
  stylePads,      \* plotStyle.GetNPads() = number of plotStyle.GetPadStyles()
  requiredPads,   \* plot.GetNumRequiredPads()
  listLen,        \* length of the style's default color and marker lists
  result,         \* "none" while running, "null" (nullptr) or "canvas"
  errors,         \* number of ERROR lines GeneratePlot's structural check printed
  canvasCreated,  \* new TCanvas(...) was executed
  canvasPads,     \* numbers (pad->SetNumber) of the pads drawn into the canvas, in order
  padIter,        \* how many pad styles the range-for has visited
  padID,          \* int padID
  replay,         \* the plot's pad padID was already rendered once (padID not advanced)
  data,           \* plot.GetData(padID), as far as declared
  cursor,         \* number of series of data the series loop has consumed
  boxes,          \* plot.GetBoxes(padID), as far as declared
  boxCursor,      \* number of boxes the box loop has consumed
  dataIndex,      \* int dataIndex
  drawingOptions, \* string drawingOptions
  prims,          \* pad->GetListOfPrimitives() of the current pad
  directives,     \* every Draw() call issued into the current pad, in call order
  lables,         \* vector<string> lables (a label is named by its series' place in data)
  legendEntries,  \* TObjArray legendEntries
  errorStyles,    \* vector<string> errorStyles
  legendIndex,    \* int legendIndex
  textIndex,      \* int textIndex
  cutPc,          \* calls of CutHistogram / CutGraph made so far: "idle", "ready", "once", "twice"
  cutoff,         \* double cutoff (the high bound)
  cutoffLow,      \* double cutoffLow
  hist0,          \* the histogram before the first call
  hist1,          \* the histogram after the first call
  hist,           \* TH1* hist
  graph0,         \* the graph's points before the call
  graph,          \* TGraph* graph: its points, in order
  leg,            \* one call of MakeLegend: its arguments, the pad and what it returned
  mrg,            \* the plots a merge is applied to, and the merged plots
  div,            \* one ratio division: numerator, denominator and the ratio
  rat,            \* one setter call on a Data and on a Ratio object with the same fields
  txt,            \* one call of MakeText: the text box and the TPaveText it returned
  axs             \* the axis settings of one pad: the plot's axes, the links, what was applied

plotVars == <<focus, pc, stylePads, requiredPads, listLen, result, errors, canvasCreated,
              canvasPads, padIter, padID, replay, data, cursor, boxes, boxCursor,
              dataIndex, drawingOptions, prims, directives, lables, legendEntries,
              errorStyles, legendIndex, textIndex>>

cutVars == <<cutPc, cutoff, cutoffLow, hist0, hist1, hist, graph0, graph>>

toolVars == <<leg, mrg, div, rat, txt, axs>>

\* No call of MakeLegend, no merge and no division is under way.
Idle == [pc |-> "idle"]

NoTools ==
  /\ leg = Idle
  /\ mrg = Idle
  /\ div = Idle
  /\ rat = Idle
  /\ txt = Idle
  /\ axs = Idle

vars == <<plotVars, cutVars, toolVars>>

\* ------------------------------------------------------- string helpers
Has(s, t) == \E n \in 1..Len(s) : s[n] = t

FirstAt(s, t) == CHOOSE n \in 1..Len(s) : s[n] = t /\ \A m \in 1..(n-1) : s[m] # t

Erase(s, t) == IF Has(s, t)
               THEN SubSeq(s, 1, FirstAt(s, t) - 1) \o SubSeq(s, FirstAt(s, t) + 1, Len(s))
               ELSE s

\* ------------------------------------------------- the style's default lists
\* The style's default colors and markers: listLen distinct positive values each.
colorList == [n \in 1..listLen |-> 10 + n]

markerList == [n \in 1..listLen |-> 20 + n]

\* plotStyle.GetDefaultColor(index) for index >= 0: the cyclic list.
GetDefaultColor(index) == colorList[(index % listLen) + 1]

\* plotStyle.GetDefaultMarker(index) for index >= 0.
GetDefaultMarker(index) == markerList[(index % listLen) + 1]

\* What a lookup can return: the cyclic slot for index >= 0; for a negative index
\* (dataIndex += color can make it negative) any value of the list.
DefaultColorChoices(index) ==
  IF index >= 0 THEN {GetDefaultColor(index)} ELSE {colorList[n] : n \in 1..listLen}

DefaultMarkerChoices(index) ==
  IF index >= 0 THEN {GetDefaultMarker(index)} ELSE {markerList[n] : n \in 1..listLen}

\* ------------------------------------------------------------ the inputs
DataTypes == {"hist", "ratio", "graph", "other"}

\* data->GetColor(): 0 is "not set", negative is the "previous slot" convention.
ColorValues == {-2, -1, 0, 7}

\* data->GetStyle().
StyleValues == {-1, 0}

\* A declared series. avail: GetDataClone finds every backing object it asks for,
\* with the expected kind. label: data->GetLable() is not empty.
\* Runs that vary the colors and styles of the series of one pad.
StyleDataChoices ==
  [type : DataTypes, color : ColorValues, style : StyleValues, opts : {<<>>},
   avail : {TRUE}, label : {FALSE}]

\* Runs that vary the pads: series that are drawn or skipped, labeled or not (a
\* series whose object is missing is skipped the same way for every type: one type
\* stands for them).
PadDataChoices ==
  {d \in [type : {"hist", "graph"}, color : {0}, style : {0}, opts : {<<>>},
          avail : BOOLEAN, label : BOOLEAN] : d.avail \/ d.type = "hist"}

\* Runs that vary the drawing options: series with and without "boxes", with and
\* without the "previous slot" color, drawn or skipped.
OptionsDataChoices ==
  [type : {"hist", "ratio", "graph"}, color : {-1, 0}, style : {0},
   opts : {<<>>, <<"boxes">>}, avail : BOOLEAN, label : {FALSE}]

DataChoices ==
  IF focus = "style" THEN StyleDataChoices
  ELSE IF focus = "options" THEN OptionsDataChoices
  ELSE PadDataChoices

BoxTypes == {"legend", "text"}

\* Runs that vary the colors and styles declare no boxes.
BoxChoices == IF focus \in {"style", "options"} THEN {} ELSE BoxTypes

\* ------------------------------------------------------- drawn primitives
Prim(kind, name, opt, color, style, src) ==
  [kind |-> kind, name |-> name, opt |-> opt, color |-> color, style |-> style, src |-> src]

\* TExec errorBoxesOn / errorBoxesOff, drawn with an empty option.
ErrorBoxesOn == Prim("TExec", "errorBoxesOn", <<>>, 0, 0, 0)

ErrorBoxesOff == Prim("TExec", "errorBoxesOff", <<>>, 0, 0, 0)

\* The TFrame the pad creates when it paints the axes of a histogram or graph.
Frame == Prim("TFrame", "TFrame", <<>>, 0, 0, 0)

\* pad->Update() paints the pad.  "this adds something to list of primitives"
\* (lines 400, 407): painting a histogram, graph or function may put the pad's frame
\* first in the list, once.
UpdatePad(list) ==
  {list} \cup (IF /\ \A n \in 1..Len(list) : list[n].kind # "TFrame"
                  /\ \E n \in 1..Len(list) : list[n].kind \in {"TH1", "TGraph", "TF1"}
               THEN {<<Frame>> \o list} ELSE {})

\* ------------------------------------------------------ GeneratePlot: start
\* The comparison off by one.
PadCountMismatchOffByOne(nPads, nRequired) == nPads + 1 < nRequired

\* "if(plotStyle.GetNPads() < plot.GetNumRequiredPads())"
PadCountMismatch(nPads, nRequired) == nPads < nRequired

PadFrame == <<padIter, padID, replay, data, cursor, boxes, boxCursor, dataIndex,
              drawingOptions, prims, directives, lables, legendEntries, errorStyles,
              legendIndex, textIndex>>

\* The state before GeneratePlot is called with a style of nPads pads whose default
\* lists have length len, and a plot that requires nRequired pads.
InitPlot(f, nPads, nRequired, len) ==
  /\ focus = f
  /\ pc = "start"
  /\ stylePads = nPads
  /\ requiredPads = nRequired
  /\ listLen = len
  /\ result = "none"
  /\ errors = 0
  /\ canvasCreated = FALSE
  /\ canvasPads = <<>>
  /\ padIter = 0
  /\ padID = 0
  /\ replay = FALSE
  /\ data = <<>>
  /\ cursor = 0
  /\ boxes = <<>>
  /\ boxCursor = 0
  /\ dataIndex = 0
  /\ drawingOptions = <<>>
  /\ prims = <<>>
  /\ directives = <<>>
  /\ lables = <<>>
  /\ legendEntries = <<>>
  /\ errorStyles = <<>>
  /\ legendIndex = 0
  /\ textIndex = 0
  /\ cutPc = IF f = "cut" THEN "ready" ELSE "idle"

\* The structural check fails: report and return nullptr.
Mismatch ==
  /\ pc = "start"
  /\ UNCHANGED <<cutVars, toolVars>>
  /\ PadCountMismatch(stylePads, requiredPads)
  /\ errors' = errors + 1
  /\ result' = "null"
  /\ pc' = "done"
  /\ UNCHANGED <<focus, stylePads, requiredPads, listLen, canvasCreated, canvasPads>>
  /\ UNCHANGED PadFrame

\* The canvas is created and the pad counter starts at 1.
CreateCanvas ==
  /\ pc = "start"
  /\ UNCHANGED <<cutVars, toolVars>>
  /\ ~PadCountMismatch(stylePads, requiredPads)
  /\ canvasCreated' = TRUE
  /\ padID' = 1
  /\ pc' = "pads"
  /\ UNCHANGED <<focus, stylePads, requiredPads, listLen, result, errors, canvasPads, padIter,
                 replay, data, cursor, boxes, boxCursor, dataIndex, drawingOptions,
                 prims, directives, lables, legendEntries, errorStyles, legendIndex,
                 textIndex>>

\* Head of "for(auto& padStyle : plotStyle.GetPadStyles())": a TPad numbered padID is
\* created and drawn, and the per-pad locals are initialised.  A pad of the plot that
\* is rendered again (padID was not advanced) has the data and boxes it had before.
BeginPad ==
  /\ pc = "pads"
  /\ UNCHANGED <<cutVars, toolVars>>
  /\ padIter < stylePads
  /\ padIter' = padIter + 1
  /\ canvasPads' = Append(canvasPads, padID)
  /\ drawingOptions' = <<>>
  /\ dataIndex' = 0
  /\ cursor' = 0
  /\ boxCursor' = 0
  /\ prims' = <<>>
  /\ directives' = <<>>
  /\ lables' = <<>>
  /\ legendEntries' = <<>>
  /\ errorStyles' = <<>>
  /\ data' = IF replay THEN data ELSE <<>>
  /\ boxes' = IF replay THEN boxes ELSE <<>>
  /\ pc' = "series"
  /\ UNCHANGED <<focus, stylePads, requiredPads, listLen, result, errors, canvasCreated, padID,
                 replay, legendIndex, textIndex>>

\* The pad loop is over: the canvas is returned.
Finish ==
  /\ pc = "pads"
  /\ UNCHANGED <<cutVars, toolVars>>
  /\ padIter = stylePads
  /\ result' = "canvas"
  /\ pc' = "done"
  /\ UNCHANGED <<focus, stylePads, requiredPads, listLen, errors, canvasCreated, canvasPads>>
  /\ UNCHANGED PadFrame

\* ---------------------------------------------- GeneratePlot: series loop
\* Lines 93-99: the color and style of the series, the index after the
\* negative-color shift, and the accumulated option string.  c93, s94, c96, s97 are
\* what the default lookups of lines 93, 94, 96, 97 return.
ResolveStyle(d, index, options, c93, s94, c96, s97) ==
  LET color0 == IF d.color # 0 THEN d.color ELSE c93
      style0 == IF d.style # 0 THEN d.style ELSE s94
      index1 == IF color0 < 0 THEN index + color0 ELSE index
  IN  [color |-> IF color0 < 0 THEN c96 ELSE color0,
       style |-> IF style0 < 0 THEN s97 ELSE style0,
       index |-> index1,
       options |-> options \o d.opts]

\* The index at which line 96 / 97 look the defaults up.
ShiftedIndex(d, index, c93) ==
  LET color0 == IF d.color # 0 THEN d.color ELSE c93
  IN  IF color0 < 0 THEN index + color0 ELSE index

\* The series is skipped ("continue"): no backing object, or no matching type.
Skipped(d) == d.type \notin {"hist", "ratio", "graph"} \/ ~d.avail

\* Lines 101-157, a 1-D histogram (the TH2 branches of lines 120-124 and 172-180 are
\* not taken).  r is ResolveStyle's record, n the series' place
\* in data.  Gives the Draw() calls in call order and the primitives the pad holds
\* after histo->Draw (the two TExec are locals of the "boxes" block and leave the
\* pad's list when the block ends, before histo->Draw).
DrawHist(r, n) ==
  LET o1 == IF Has(r.options, "none") THEN Erase(r.options, "none") ELSE r.options
      isHist == Has(o1, "hist")
      isBand == ~isHist /\ Has(o1, "band")
      isBoxes == ~isHist /\ ~isBand /\ Has(o1, "boxes")
      o2 == IF isHist THEN Append(o1, "HIST")
            ELSE IF isBand THEN Append(Erase(o1, "band"), "E5")
            ELSE IF isBoxes THEN Append(Erase(o1, "boxes"), "E2")
            ELSE o1
      h == Prim("TH1", "hist", o2, r.color, r.style, n)
  IN  [calls |-> (IF isBoxes THEN <<ErrorBoxesOn, ErrorBoxesOff>> ELSE <<>>) \o <<h>>,
       drawn |-> <<h>>,
       index |-> r.index]

\* Lines 158-219, a 1-D ratio.  With dataIndex = 0 the invisible axis histogram and
\* the reference line at 1 are drawn first, dataIndex is advanced and the color and
\* style are read again from the series (lines 201-202).
DrawRatio(r, d, n) ==
  LET first == r.index = 0
      o1 == IF first THEN Append(r.options, "SAME") ELSE r.options
      index1 == IF first THEN r.index + 1 ELSE r.index
      color1 == IF first THEN (IF d.color # 0 THEN d.color ELSE GetDefaultColor(index1))
                ELSE r.color
      style1 == IF first THEN (IF d.style # 0 THEN d.style ELSE GetDefaultMarker(index1))
                ELSE r.style
      isBoxes == Has(o1, "boxes")
      o2 == IF isBoxes THEN Append(Erase(o1, "boxes"), "E2") ELSE o1
      ref == IF first
             THEN <<Prim("TH1", "dummy", <<"AXIS">>, 0, 0, 0),
                    Prim("TF1", "line", <<"SAME">>, 1, 0, 0)>>
             ELSE <<>>
      h == Prim("TH1", "ratio", o2, color1, style1, n)
  IN  [calls |-> ref \o (IF isBoxes THEN <<ErrorBoxesOn, ErrorBoxesOff>> ELSE <<>>) \o <<h>>,
       drawn |-> ref \o <<h>>,
       index |-> index1]

\* Lines 220-254, a graph.
DrawGraph(r, n) ==
  LET isBoxes == Has(r.options, "boxes")
      o1 == IF isBoxes THEN <<"E2", "SAME">> ELSE r.options
      o2 == IF r.index = 0 THEN Append(o1, "AP") ELSE o1
      g == Prim("TGraph", "graph", o2, r.color, r.style, n)
  IN  [calls |-> (IF isBoxes THEN <<ErrorBoxesOn, ErrorBoxesOff>> ELSE <<>>) \o <<g>>,
       drawn |-> <<g>>,
       index |-> r.index]

DrawSeries(r, d, n) ==
  IF d.type = "hist" THEN DrawHist(r, n)
  ELSE IF d.type = "ratio" THEN DrawRatio(r, d, n)
  ELSE DrawGraph(r, n)

\* The series the loop takes next: the next declared one, or, while the pad's
\* declaration is still open, any series.  Pads beyond those the plot requires have
\* no data.
NextData ==
  IF cursor < Len(data) THEN {data[cursor + 1]}
  ELSE IF ~replay /\ padID <= requiredPads /\ Len(data) < MaxSeries THEN DataChoices
  ELSE {}

\* Every drawn series is entered.
AddsLegendEntryAlways(d) == TRUE

\* Line 263, "if (!data->GetLable().empty())": the drawn series is entered into
\* lables, legendEntries and errorStyles.
AddsLegendEntry(d) == d.label

\* One iteration of "for(auto data : plot.GetData(padID))", lines 92-268.
Series ==
  /\ pc = "series"
  /\ UNCHANGED <<cutVars, toolVars>>
  /\ \E d \in NextData :
     \E c93 \in DefaultColorChoices(dataIndex), s94 \in DefaultMarkerChoices(dataIndex) :
     \E c96 \in DefaultColorChoices(ShiftedIndex(d, dataIndex, c93)),
        s97 \in DefaultMarkerChoices(ShiftedIndex(d, dataIndex, c93)) :
       LET r == ResolveStyle(d, dataIndex, drawingOptions, c93, s94, c96, s97)
           n == cursor + 1
           out == DrawSeries(r, d, n)
       IN  /\ data' = IF cursor < Len(data) THEN data ELSE Append(data, d)
           /\ cursor' = n
           /\ IF Skipped(d)
              THEN /\ dataIndex' = r.index
                   /\ drawingOptions' = r.options
                   /\ UNCHANGED <<prims, directives, lables, legendEntries, errorStyles>>
              ELSE /\ dataIndex' = out.index + 1
                   /\ drawingOptions' = <<"EP", "SAME">>
                   /\ prims' = prims \o out.drawn
                   /\ directives' = directives \o out.calls
                   /\ IF AddsLegendEntry(d)
                      THEN /\ lables' = Append(lables, n)
                           /\ legendEntries' = Append(legendEntries, prims'[Len(prims')])
                           /\ errorStyles' = Append(errorStyles, d.opts)
                      ELSE UNCHANGED <<lables, legendEntries, errorStyles>>
  /\ UNCHANGED <<focus, pc, stylePads, requiredPads, listLen, result, errors, canvasCreated,
                 canvasPads, padIter, padID, replay, boxes, boxCursor, legendIndex,
                 textIndex>>

\* The series loop is over (every declared series was taken): lines 297-298.
EndSeries ==
  /\ pc = "series"
  /\ UNCHANGED <<cutVars, toolVars>>
  /\ cursor = Len(data)
  /\ legendIndex' = 1
  /\ textIndex' = 1
  /\ pc' = "boxes"
  /\ UNCHANGED <<focus, stylePads, requiredPads, listLen, result, errors, canvasCreated,
                 canvasPads, padIter, padID, replay, data, cursor, boxes, boxCursor,
                 dataIndex, drawingOptions, prims, directives, lables, legendEntries,
                 errorStyles>>

\* ------------------------------------------------- GeneratePlot: box loop
\* Every sequence of at most n box types.
BoxSeqs(n) == UNION {[1..m -> BoxChoices] : m \in 0..n}

\* The box the loop takes next, as NextData.
NextBox ==
  IF boxCursor < Len(boxes) THEN {boxes[boxCursor + 1]}
  ELSE IF ~replay /\ padID <= requiredPads /\ Len(boxes) < MaxBoxes THEN BoxChoices
  ELSE {}

\* One iteration of "for(auto box : plot.GetBoxes(padID))", lines 300-332.  A legend
\* box in a pad without labels leaves the loop ("break"), whatever is declared
\* after it.  MakeLegend and MakeText leave the pad's list as it is, or as
\* pad->Update() leaves it when the box is auto-placed or given in user coordinates
\* (lines 578, 638, 719).
Box ==
  /\ pc = "boxes"
  /\ UNCHANGED <<cutVars, toolVars>>
  /\ \E b \in NextBox :
       LET n == boxCursor + 1
           declared == IF boxCursor < Len(boxes) THEN boxes ELSE Append(boxes, b)
       IN  IF b = "legend" /\ lables = <<>>
           THEN /\ \E rest \in BoxSeqs(IF boxCursor < Len(boxes) THEN 0
                                        ELSE MaxBoxes - Len(declared)) :
                      boxes' = declared \o rest
                /\ boxCursor' = n
                /\ pc' = "axes"
                /\ UNCHANGED <<prims, directives, legendIndex, textIndex>>
           ELSE /\ boxes' = declared
                /\ boxCursor' = n
                /\ pc' = "boxes"
                /\ IF b = "legend"
                   THEN /\ \E updated \in UpdatePad(prims) :
                             prims' = Append(updated, Prim("TLegend", legendIndex, <<"SAME">>, 0, 0, 0))
                        /\ directives' = Append(directives, Prim("TLegend", legendIndex, <<"SAME">>, 0, 0, 0))
                        /\ legendIndex' = legendIndex + 1
                        /\ UNCHANGED textIndex
                   ELSE /\ \E updated \in UpdatePad(prims) :
                             prims' = Append(updated, Prim("TPaveText", textIndex, <<"SAME">>, 0, 0, 0))
                        /\ directives' = Append(directives, Prim("TPaveText", textIndex, <<"SAME">>, 0, 0, 0))
                        /\ textIndex' = textIndex + 1
                        /\ UNCHANGED legendIndex
  /\ UNCHANGED <<focus, stylePads, requiredPads, listLen, result, errors, canvasCreated,
                 canvasPads, padIter, padID, replay, data, cursor, dataIndex,
                 drawingOptions, lables, legendEntries, errorStyles>>

\* The box loop is over: every declared box was taken.
EndBoxes ==
  /\ pc = "boxes"
  /\ UNCHANGED <<cutVars, toolVars>>
  /\ boxCursor = Len(boxes)
  /\ pc' = "axes"
  /\ UNCHANGED <<focus, stylePads, requiredPads, listLen, result, errors, canvasCreated,
                 canvasPads>>
  /\ UNCHANGED PadFrame

\* ------------------------------------------ GeneratePlot: axis finalization
\* "pointer->InheritsFrom(TH1::Class()) || ...TGraph... || ...TF1..."
IsAxisCarrier(p) == p.kind \in {"TH1", "TGraph", "TF1"}

HasAxisObject(list) == \E n \in 1..Len(list) : IsAxisCarrier(list[n])

\* Line 335: the pad is empty, "continue" (padID is not advanced).
EmptyPad ==
  /\ pc = "axes"
  /\ UNCHANGED <<cutVars, toolVars>>
  /\ prims = <<>>
  /\ replay' = TRUE
  /\ pc' = "pads"
  /\ UNCHANGED <<focus, stylePads, requiredPads, listLen, result, errors, canvasCreated,
                 canvasPads, padIter, padID, data, cursor, boxes, boxCursor, dataIndex,
                 drawingOptions, prims, directives, lables, legendEntries, errorStyles,
                 legendIndex, textIndex>>

\* Lines 337-349: no primitive is a histogram, graph or function, axisObject stays
\* nullptr and line 345 calls a virtual method on it.  The call is undefined: either
\* the program ends there, or the three type tests come out false, axisHist stays
\* nullptr and line 349 goes on with the next pad style ("continue", padID not
\* advanced).
NullAxisObject ==
  /\ pc = "axes"
  /\ UNCHANGED <<cutVars, toolVars>>
  /\ prims # <<>>
  /\ ~HasAxisObject(prims)
  /\ \/ /\ result' = "crash"
        /\ pc' = "done"
        /\ UNCHANGED replay
     \/ /\ replay' = TRUE
        /\ pc' = "pads"
        /\ UNCHANGED result
  /\ UNCHANGED <<focus, stylePads, requiredPads, listLen, errors, canvasCreated, canvasPads,
                 padIter, padID, data, cursor, boxes, boxCursor, dataIndex, drawingOptions,
                 prims, directives, lables, legendEntries, errorStyles, legendIndex,
                 textIndex>>

\* Lines 337-413: the axes are set on the first histogram, graph or function of the
\* pad, and padID is advanced.
FinalizePad ==
  /\ pc = "axes"
  /\ UNCHANGED <<cutVars, toolVars>>
  /\ HasAxisObject(prims)
  /\ padID' = padID + 1
  /\ replay' = FALSE
  /\ pc' = "pads"
  /\ UNCHANGED <<focus, stylePads, requiredPads, listLen, result, errors, canvasCreated,
                 canvasPads, padIter, data, cursor, boxes, boxCursor, dataIndex,
                 drawingOptions, prims, directives, lables, legendEntries, errorStyles,
                 legendIndex, textIndex>>

\* ------------------------------------------------------------ CutHistogram
\* A 1-D histogram: nbins regular bins of equal width from xmin on, bin 0 the
\* underflow and bin nbins+1 the overflow bin, each with a content and an error.
Bins(h) == 0..(h.nbins + 1)

\* hist->GetXaxis()->FindBin(x): 0 below the axis, nbins+1 at or above its upper edge.
FindBin(h, x) ==
  IF x < h.xmin THEN 0
  ELSE IF x >= h.xmin + h.nbins * h.width THEN h.nbins + 1
  ELSE 1 + ((x - h.xmin) \div h.width)

\* A mix-up of the two setters' arguments.
ZeroBinMixedUp(h, i) ==
  [h EXCEPT !.content[i] = h.error[i], !.error[i] = 0]

\* "hist->SetBinContent(i, 0); hist->SetBinError(i, 0);"
ZeroBin(h, i) ==
  [h EXCEPT !.content[i] = 0, !.error[i] = 0]

\* "for(int i = from; i <= to; i++)" over ZeroBin.
RECURSIVE ZeroBins(_, _, _)
ZeroBins(h, from, to) ==
  IF from > to THEN h ELSE ZeroBins(ZeroBin(h, from), from + 1, to)

\* The high loop starting one bin late.
CutHistogramLate(h, high, low) ==
  IF high < CutDisabledBelow THEN h
  ELSE LET h1 == ZeroBins(h, FindBin(h, high) + 1, h.nbins)
       IN  IF low < CutDisabledBelow THEN h1
           ELSE ZeroBins(h1, 1, FindBin(h1, low))

\* void CutHistogram(TH1* hist, double cutoff, double cutoffLow)
CutHistogram(h, high, low) ==
  IF high < CutDisabledBelow THEN h
  ELSE LET h1 == ZeroBins(h, FindBin(h, high), h.nbins)
       IN  IF low < CutDisabledBelow THEN h1
           ELSE ZeroBins(h1, 1, FindBin(h1, low))

\* The contents and errors a bin is drawn from.
BinValues == {<<0, 0>>, <<4, 0>>, <<4, 2>>}

\* Histograms of up to MaxBins bins, of width 1 or 2, starting at 0.
Histograms ==
  UNION {{[nbins |-> n, xmin |-> 0, width |-> w,
           content |-> [b \in 0..(n + 1) |-> v[b][1]],
           error |-> [b \in 0..(n + 1) |-> v[b][2]]] :
          v \in [0..(n + 1) -> BinValues], w \in {1, 2}} : n \in 1..MaxBins}

\* Cutoffs: disabled (-999, -998), the threshold itself, and values below, on and
\* above an axis of up to MaxBins bins.
CutValues == {-999, -998, CutDisabledBelow} \cup (-1..(2 * MaxBins + 1))

NoHist == [nbins |-> 0, xmin |-> 0, width |-> 1, content |-> <<>>, error |-> <<>>]

\* No CutHistogram or CutGraph call is under way.
NoCut ==
  /\ cutoff = 0
  /\ cutoffLow = 0
  /\ hist0 = NoHist
  /\ hist1 = NoHist
  /\ hist = NoHist
  /\ graph0 = <<>>
  /\ graph = <<>>

InitCutHistogram ==
  /\ InitPlot("cut", 1, 1, 1)
  /\ NoTools
  /\ cutoff = 0
  /\ cutoffLow = 0
  /\ hist0 \in Histograms
  /\ hist1 = hist0
  /\ hist = hist0
  /\ graph0 = <<>>
  /\ graph = <<>>

\* The first call, with any bounds.
CutHistogramOnce ==
  /\ cutPc = "ready"
  /\ \E high \in CutValues, low \in CutValues :
       /\ cutoff' = high
       /\ cutoffLow' = low
       /\ hist' = CutHistogram(hist, high, low)
  /\ hist1' = hist'
  /\ cutPc' = "once"
  /\ UNCHANGED <<hist0, graph0, graph>>
  /\ UNCHANGED <<plotVars, toolVars>>

\* A second call with the same bounds.
CutHistogramAgain ==
  /\ cutPc = "once"
  /\ hist' = CutHistogram(hist, cutoff, cutoffLow)
  /\ cutPc' = "twice"
  /\ UNCHANGED <<cutoff, cutoffLow, hist0, hist1, graph0, graph>>
  /\ UNCHANGED <<plotVars, toolVars>>

NextCutHistogram == CutHistogramOnce \/ CutHistogramAgain

SpecCutHistogram == InitCutHistogram /\ [][NextCutHistogram]_vars

\* ------------------------------------------------- claims on CutHistogram
SideEnabled(c) == ~(c < CutDisabledBelow)

BinZero(h, b) == h.content[b] = 0 /\ h.error[b] = 0

BinKept(h, g, b) == h.content[b] = g.content[b] /\ h.error[b] = g.error[b]

C6_LowCutZeroes ==
  (cutPc \in {"once", "twice"} /\ SideEnabled(cutoffLow)) =>
    \A b \in 1..(hist0.nbins + 1) :
      /\ b <= FindBin(hist0, cutoffLow) => BinZero(hist1, b)
      /\ (~SideEnabled(cutoff) /\ b > FindBin(hist0, cutoffLow)) => BinKept(hist1, hist0, b)

\* C7: a second CutHistogram call with the same bounds changes nothing.
C7_CutIdempotent ==
  cutPc = "twice" => hist = hist1

\* Two calls whose first one zeroed filled bins on both sides and left one filled.
C7_Witness ==
  /\ cutPc = "twice"
  /\ SideEnabled(cutoff)
  /\ SideEnabled(cutoffLow)
  /\ \E b \in 1..hist0.nbins : hist0.error[b] # 0 /\ b <= FindBin(hist0, cutoffLow)
  /\ \E b \in 1..hist0.nbins : hist0.error[b] # 0 /\ b >= FindBin(hist0, cutoff)
  /\ \E b \in 1..hist0.nbins : hist1.content[b] # 0

\* ---------------------------------------------------------------- CutGraph
\* A graph is the sequence of its points [x, y]; point i of the code is element i+1.

\* graph->RemovePoint(ipoint): nothing is removed for a point the graph does not have.
RemovePoint(g, ipoint) ==
  IF ipoint < 0 \/ ipoint >= Len(g) THEN g
  ELSE SubSeq(g, 1, ipoint) \o SubSeq(g, ipoint + 2, Len(g))

\* Lines 796-805: the two counters.
PointsToRemoveHigh(g, high) ==
  IF high < CutDisabledBelow THEN 0
  ELSE Cardinality({n \in 1..Len(g) : g[n].x > high})

PointsToRemoveLow(g, low) ==
  IF low < CutDisabledBelow THEN 0
  ELSE Cardinality({n \in 1..Len(g) : g[n].x < low})

\* "for(auto i = 0; i < n; i++) graph->RemovePoint(graph->GetN()-1);"
RECURSIVE RemoveLast(_, _)
RemoveLast(g, n) ==
  IF n = 0 THEN g ELSE RemoveLast(RemovePoint(g, Len(g) - 1), n - 1)

\* "for(auto i = 0; i < n; i++) graph->RemovePoint(0);"
RECURSIVE RemoveFirst(_, _)
RemoveFirst(g, n) ==
  IF n = 0 THEN g ELSE RemoveFirst(RemovePoint(g, 0), n - 1)

\* The cut points kept in place with y set to zero instead of removed.
CutGraphZeroing(g, high, low) ==
  [n \in 1..Len(g) |->
     IF \/ (~(high < CutDisabledBelow) /\ g[n].x > high)
        \/ (~(low < CutDisabledBelow) /\ g[n].x < low)
     THEN [x |-> g[n].x, y |-> 0]
     ELSE g[n]]

\* The high comparison taken as ">=".
CutGraphInclusive(g, high, low) ==
  LET nHigh == IF high < CutDisabledBelow THEN 0
               ELSE Cardinality({n \in 1..Len(g) : g[n].x >= high})
  IN  RemoveFirst(RemoveLast(g, nHigh), PointsToRemoveLow(g, low))

\* void CutGraph(TGraph* graph, double cutoff, double cutoffLow)
CutGraph(g, high, low) ==
  RemoveFirst(RemoveLast(g, PointsToRemoveHigh(g, high)), PointsToRemoveLow(g, low))

\* The points of a graph: x in any order, y telling equal x apart.
PointValues == [x : 1..3, y : {0, 1}]

Graphs == UNION {[1..n -> PointValues] : n \in 0..MaxPoints}

\* Cutoffs: disabled, the threshold, and values below, on and above the x values.
GraphCutValues == {-999, CutDisabledBelow} \cup (0..5)

InitCutGraph ==
  /\ InitPlot("cut", 1, 1, 1)
  /\ NoTools
  /\ cutoff = 0
  /\ cutoffLow = 0
  /\ hist0 = NoHist
  /\ hist1 = NoHist
  /\ hist = NoHist
  /\ graph0 \in Graphs
  /\ graph = graph0

\* The call, with any bounds.
CutGraphOnce ==
  /\ cutPc = "ready"
  /\ \E high \in GraphCutValues, low \in GraphCutValues :
       /\ cutoff' = high
       /\ cutoffLow' = low
       /\ graph' = CutGraph(graph, high, low)
  /\ cutPc' = "once"
  /\ UNCHANGED <<hist0, hist1, hist, graph0>>
  /\ UNCHANGED <<plotVars, toolVars>>

NextCutGraph == CutGraphOnce

SpecCutGraph == InitCutGraph /\ [][NextCutGraph]_vars

\* ----------------------------------------------------- claims on CutGraph
Max(a, b) == IF a > b THEN a ELSE b

\* The number of points with x strictly above an enabled high bound / strictly below
\* an enabled low bound, counted on the graph before the call.
NumAbove(g, high) == IF SideEnabled(high) THEN Cardinality({n \in 1..Len(g) : g[n].x > high}) ELSE 0

NumBelow(g, low) == IF SideEnabled(low) THEN Cardinality({n \in 1..Len(g) : g[n].x < low}) ELSE 0

\* C8 as stated: the point count after CutGraph is the original count minus the
\* points strictly above the high bound minus the points strictly below the low
\* bound, for every graph and every pair of bounds.
C8_CountAsStated ==
  cutPc = "once" =>
    Len(graph) = Len(graph0) - NumAbove(graph0, cutoff) - NumBelow(graph0, cutoffLow)

\* C8, amended: the point count after CutGraph is that difference when it is not
\* negative, and 0 otherwise (a point with high < x < low is counted on both sides,
\* and no more points are removed than the graph has).
C8_CountAmended ==
  cutPc = "once" =>
    Len(graph) = Max(0, Len(graph0) - NumAbove(graph0, cutoff) - NumBelow(graph0, cutoffLow))

\* A call that removes points on both sides and leaves some.
C8_Witness ==
  /\ cutPc = "once"
  /\ NumAbove(graph0, cutoff) > 0
  /\ NumBelow(graph0, cutoffLow) > 0
  /\ Len(graph) > 0
  /\ Len(graph) < Len(graph0)

\* s is t with some elements left out: the elements of s in order, each unchanged.
RECURSIVE IsSubsequence(_, _)
IsSubsequence(s, t) ==
  IF s = <<>> THEN TRUE
  ELSE IF t = <<>> THEN FALSE
  ELSE IF Head(s) = Head(t) THEN IsSubsequence(Tail(s), Tail(t))
  ELSE IsSubsequence(s, Tail(t))

\* C9: the points after CutGraph are a subsequence of the points before it, each
\* with its x and y.
C9_OrderKept ==
  cutPc = "once" => IsSubsequence(graph, graph0)

\* A call that removes a point at the front of a graph of at least three distinct
\* points and leaves at least two.
C9_Witness ==
  /\ cutPc = "once"
  /\ NumBelow(graph0, cutoffLow) > 0
  /\ Len(graph) >= 2
  /\ graph[1] # graph[2]
  /\ graph0[1] # graph[1]

\* The number of points of g that equal p.
Occurrences(g, p) == Cardinality({n \in 1..Len(g) : g[n] = p})

\* A point beyond an enabled bound.
Outside(p, high, low) ==
  (SideEnabled(high) /\ p.x > high) \/ (SideEnabled(low) /\ p.x < low)

\* C25: after CutGraph no surviving point lies above an enabled high bound or below
\* an enabled low bound, and every original point within the bounds survives,
\* whatever the order of the graph's x values.
C25_CutByValue ==
  cutPc = "once" =>
    /\ \A n \in 1..Len(graph) : ~Outside(graph[n], cutoff, cutoffLow)
    /\ \A p \in PointValues :
          ~Outside(p, cutoff, cutoffLow) => Occurrences(graph, p) = Occurrences(graph0, p)

\* -------------------------------------------------------------- MakeLegend
\* Positions and sizes in normalised pad coordinates (NDC) are whole numbers of
\* 1/NDCUnit; a quotient the code takes in double is rounded down to that unit.
NDCUnit == 10000

\* A text with the pixel width and height TLatex::GetBoundingBox reports for it
\* (text = "" is the empty string).  Labels hold none of the "<name>", "<title>", ...
\* tokens of lines 491-533.
Text(t, w, h) == [text |-> t, w |-> w, h |-> h]

\* optional<double>: set, with a value, or unset.
Unset == [set |-> FALSE, v |-> 0]

Value(x) == [set |-> TRUE, v |-> x]

\* Plot.h: Box::GetXPosition, GetYPosition.
GetPosition(p) == IF p.set THEN p.v ELSE 0

\* Plot.h: Box::IsAutoPlacement.
IsAutoPlacement(box) == ~box.x.set \/ ~box.y.set

\* The four rectangles of lines 588-591, in the order lines 592-595 draw them.
MarginBoxes ==
  <<Prim("TBox", "marginsBottom", <<"SAME">>, 0, 0, 0),
    Prim("TBox", "marginsTop", <<"SAME">>, 0, 0, 0),
    Prim("TBox", "marginsLeft", <<"SAME">>, 0, 0, 0),
    Prim("TBox", "marginsRight", <<"SAME">>, 0, 0, 0)>>

\* TList::Remove(obj): the list without its first occurrence of obj.
RECURSIVE Remove(_, _)
Remove(list, obj) ==
  IF list = <<>> THEN <<>>
  ELSE IF Head(list) = obj THEN Tail(list)
  ELSE <<Head(list)>> \o Remove(Tail(list), obj)

\* Only three of the rectangles are taken out again.
RemoveMarginBoxesButLast(list) ==
  Remove(Remove(Remove(list, MarginBoxes[1]), MarginBoxes[2]), MarginBoxes[3])

\* Lines 628-631.
RemoveMarginBoxes(list) ==
  Remove(Remove(Remove(Remove(list, MarginBoxes[1]), MarginBoxes[2]), MarginBoxes[3]),
         MarginBoxes[4])

\* Lines 485-552: the largest height of all texts, the pixel width of column c
\* (entries are dealt to the columns round-robin; the box title, last in
\* legendTitles, is left out of the columns), and the sum of the column widths.
RECURSIVE MaxHeight(_)
MaxHeight(texts) ==
  IF texts = <<>> THEN 0
  ELSE LET rest == MaxHeight(Tail(texts))
       IN  IF Head(texts).h > rest THEN Head(texts).h ELSE rest

RECURSIVE ColumnWidth(_, _, _, _)
ColumnWidth(texts, n, c, nColumns) ==
  IF n = 0 THEN 0
  ELSE LET rest == ColumnWidth(texts, n - 1, c, nColumns)
       IN  IF (n - 1) % nColumns = c /\ texts[n].w > rest THEN texts[n].w ELSE rest

RECURSIVE SumColumns(_, _, _, _)
SumColumns(texts, n, c, nColumns) ==
  IF c = 0 THEN 0
  ELSE ColumnWidth(texts, n, c - 1, nColumns) + SumColumns(texts, n, c - 1, nColumns)

\* The title is not counted as an entry.
CountEntriesWithoutTitle(nLegendEntries, title) == nLegendEntries

\* Lines 475-476: nEntries.
CountEntries(nLegendEntries, title) ==
  IF title.text # "" THEN nLegendEntries + 1 ELSE nLegendEntries

\* Line 568: totalHeightNDC = (nEntries + 0.5*(nEntries+1)) * legendHeightNDC / nColumns.
TotalHeightNDC(nEntries, legendHeightNDC, nColumns) ==
  ((2 * nEntries + (nEntries + 1)) * legendHeightNDC) \div (2 * nColumns)

\* Lines 569-570: totalWidthNDC.
TotalWidthNDC(nColumns, markerWidthNDC, legendWidthNDC, titleWidthNDC, titleWider) ==
  IF titleWider THEN (3333 * markerWidthNDC) \div NDCUnit + titleWidthNDC
  ELSE ((nColumns * NDCUnit + 3333) * markerWidthNDC) \div NDCUnit + legendWidthNDC

\* Lines 583-584: marginX and marginY, 0.9 of the tick length in pad coordinates.
MarginX(pad) == (9 * pad.tickY * (pad.Uxmax - pad.Uxmin)) \div (10 * (pad.X2 - pad.X1))

MarginY(pad) == (9 * pad.tickX * (pad.Uymax - pad.Uymin)) \div (10 * (pad.Y2 - pad.Y1))

\* Lines 610-611: the position when no free rectangle was found;
\* (1 + 1/0.9) * margin is 19/9 of the margin.
FallbackX(pad) ==
  ((pad.Uxmin - pad.X1) * NDCUnit) \div (pad.X2 - pad.X1) + (19 * MarginX(pad)) \div 9

FallbackY(pad) ==
  ((pad.Uymax - pad.Y1) * NDCUnit) \div (pad.Y2 - pad.Y1) - (19 * MarginY(pad)) \div 9

\* TPad::PlaceBox called for the k-th primitive: where it puts a box it can place.
PlaceAt(k) == [x |-> 100 * k, y |-> 200 * k]

\* Lines 598-601: PlaceBox is called once for every primitive of the pad; answers[k]
\* tells whether call k found room.  A call that finds room overwrites lowerLeftX
\* and lowerLeftY, and every call overwrites foundPosition.
RECURSIVE PlaceLoop(_, _)
PlaceLoop(answers, k) ==
  IF k = 0 THEN [found |-> FALSE, x |-> 0, y |-> 0]
  ELSE LET before == PlaceLoop(answers, k - 1)
       IN  IF answers[k] THEN [found |-> TRUE, x |-> PlaceAt(k).x, y |-> PlaceAt(k).y]
           ELSE [found |-> FALSE, x |-> before.x, y |-> before.y]

\* The fallback starts from the free rectangle's corner variables.
UpperLeftFromCorner(place, pad, totalHeightNDC) ==
  IF place.found
  THEN [x |-> place.x + 2 * MarginX(pad), y |-> place.y + totalHeightNDC + 2 * MarginY(pad)]
  ELSE [x |-> place.x + (19 * MarginX(pad)) \div 9, y |-> place.y - (19 * MarginY(pad)) \div 9]

\* Lines 602-612: upperLeftX and upperLeftY of an auto-placed legend.
UpperLeft(place, pad, totalHeightNDC) ==
  IF place.found
  THEN [x |-> place.x + 2 * MarginX(pad), y |-> place.y + totalHeightNDC + 2 * MarginY(pad)]
  ELSE [x |-> FallbackX(pad), y |-> FallbackY(pad)]

\* Lines 649-654: drawStyle; errorStyles[i] == "hist" compares the whole string.
DrawStyle(entry, errorStyle) ==
  IF entry.kind = "TF1" \/ errorStyle = <<"hist">> THEN "l" ELSE "ep"

\* MakeLegend, lines 466-679, for the entries, their labels and their error styles
\* (the arguments legendEntries, legendTitles and errorStyles).  updated is the pad's
\* list as pad->Update() leaves it, answers what the PlaceBox calls return.  Gives
\* the legend, the pad's list at the return and the number of warnings printed.
MakeLegend(legendBox, pad, padPrims, entries, legendTitles, styles, updated, answers) ==
  LET nColumns == legendBox.nColumns
      nEntries == CountEntries(Len(entries), legendBox.title)
      titles == IF legendBox.title.text # "" THEN Append(legendTitles, legendBox.title)
                ELSE legendTitles
      legendHeightPixel == MaxHeight(titles)
      legendWidthPixel == SumColumns(legendTitles, Len(legendTitles), nColumns, nColumns)
      titleWidthPixel == IF legendBox.title.text # "" THEN legendBox.title.w ELSE 0
      legendWidthNDC == (legendWidthPixel * NDCUnit) \div pad.widthPixel
      legendHeightNDC == (legendHeightPixel * NDCUnit) \div pad.heightPixel
      markerWidthNDC == (pad.markerWidthPixel * NDCUnit) \div pad.widthPixel
      titleWidthNDC == (titleWidthPixel * NDCUnit) \div pad.widthPixel
      totalHeightNDC == TotalHeightNDC(nEntries, legendHeightNDC, nColumns)
      totalWidthNDC == TotalWidthNDC(nColumns, markerWidthNDC, legendWidthNDC, titleWidthNDC,
                                     titleWidthPixel > legendWidthPixel)
      auto == IsAutoPlacement(legendBox)
      withBoxes == updated \o MarginBoxes
      place == PlaceLoop(answers, IF auto THEN Len(withBoxes) ELSE 0)
      upperLeft ==
        IF auto THEN UpperLeft(place, pad, totalHeightNDC)
        ELSE IF legendBox.userCoord
        THEN [x |-> ((GetPosition(legendBox.x) - pad.X1) * NDCUnit) \div (pad.X2 - pad.X1),
              y |-> ((GetPosition(legendBox.y) - pad.Y1) * NDCUnit) \div (pad.Y2 - pad.Y1)]
        ELSE [x |-> GetPosition(legendBox.x), y |-> GetPosition(legendBox.y)]
  IN  [legend |-> [x1 |-> upperLeft.x,
                   y1 |-> upperLeft.y - totalHeightNDC,
                   x2 |-> upperLeft.x + totalWidthNDC,
                   y2 |-> upperLeft.y,
                   header |-> legendBox.title.text,
                   nColumns |-> nColumns,
                   rows |-> [i \in 1..Len(entries) |->
                                  [handle |-> entries[i],
                                   label |-> legendTitles[i].text,
                                   drawStyle |-> DrawStyle(entries[i], styles[i])]]],
       rowHeightNDC |-> legendHeightNDC,
       totalHeightNDC |-> totalHeightNDC,
       totalWidthNDC |-> totalWidthNDC,
       placeCalls |-> IF auto THEN Len(withBoxes) ELSE 0,
       place |-> place,
       warnings |-> IF auto /\ ~place.found THEN 1 ELSE 0,
       padPrims |-> IF auto THEN RemoveMarginBoxes(withBoxes)
                    ELSE IF legendBox.userCoord THEN updated
                    ELSE padPrims]

\* One call of MakeLegend.
MakeLegendCall ==
  /\ leg.pc = "ready"
  /\ \E updated \in (IF IsAutoPlacement(leg.legendBox) \/ leg.legendBox.userCoord
                     THEN UpdatePad(leg.padPrims) ELSE {leg.padPrims}) :
     \E answers \in (IF IsAutoPlacement(leg.legendBox)
                     THEN [1..(Len(updated) + Len(MarginBoxes)) -> BOOLEAN] ELSE {<<>>}) :
       leg' = [pc |-> "done",
               legendBox |-> leg.legendBox,
               pad |-> leg.pad,
               padPrims |-> leg.padPrims,
               legendEntries |-> leg.legendEntries,
               legendTitles |-> leg.legendTitles,
               errorStyles |-> leg.errorStyles,
               out |-> MakeLegend(leg.legendBox, leg.pad, leg.padPrims, leg.legendEntries,
                                  leg.legendTitles, leg.errorStyles, updated, answers)]
  /\ UNCHANGED <<plotVars, cutVars, mrg, div, rat, txt, axs>>

\* ---- inputs of MakeLegend
Pads ==
  {[X1 |-> -10, X2 |-> 90, Uxmin |-> 0, Uxmax |-> 80,
    Y1 |-> -20, Y2 |-> 180, Uymin |-> 0, Uymax |-> 160,
    tickX |-> 300, tickY |-> ty, widthPixel |-> 400, heightPixel |-> 400,
    markerWidthPixel |-> 40] : ty \in {300, 500}}

\* The handle of entry i, a histogram or graph (kind "TH1") or a function ("TF1").
Entry(kind, i) == Prim(kind, "entry", <<>>, 0, 0, i)

LabelSizes == {<<30, 16>>, <<60, 32>>}

ErrorStyles == {<<>>, <<"hist">>, <<"hist", "E">>}

BoxTitles == {Text("", 0, 0), Text("title", 80, 32)}

\* A call is about to be made with these arguments.
ReadyLegend(legendBox, pad, padPrims, kinds, sizes, styles) ==
  [pc |-> "ready",
   legendBox |-> legendBox,
   pad |-> pad,
   padPrims |-> padPrims,
   legendEntries |-> [i \in DOMAIN kinds |-> Entry(kinds[i], i)],
   legendTitles |-> [i \in DOMAIN kinds |-> Text("label", sizes[i][1], sizes[i][2])],
   errorStyles |-> styles]

InitTool ==
  /\ InitPlot("tool", 1, 1, 1)
  /\ NoCut

\* Auto-placed legends of up to MaxEntries histogram entries of one size, in pads
\* that hold one or two series and may have been painted before.
InitLegendPlace ==
  /\ InitTool
  /\ mrg = Idle
  /\ div = Idle
  /\ rat = Idle
  /\ txt = Idle
  /\ axs = Idle
  /\ \E n \in 1..MaxEntries, size \in LabelSizes, title \in BoxTitles, nColumns \in 1..2,
        x \in {Unset, Value(1000)}, pad \in Pads,
        padPrims \in {<<Prim("TH1", "hist", <<>>, 0, 0, 1)>>,
                      <<Frame, Prim("TH1", "hist", <<>>, 0, 0, 1)>>,
                      <<Prim("TH1", "hist", <<>>, 0, 0, 1),
                        Prim("TGraph", "graph", <<>>, 0, 0, 2)>>} :
       leg = ReadyLegend([title |-> title, nColumns |-> nColumns, x |-> x, y |-> Unset,
                          userCoord |-> FALSE],
                         pad, padPrims, [i \in 1..n |-> "TH1"], [i \in 1..n |-> size],
                         [i \in 1..n |-> <<>>])

\* Legends at a given position, of up to MaxEntries entries of any kind, label size
\* and option string.
InitLegendEntries ==
  /\ InitTool
  /\ mrg = Idle
  /\ div = Idle
  /\ rat = Idle
  /\ txt = Idle
  /\ axs = Idle
  /\ \E n \in 1..MaxEntries, title \in BoxTitles, nColumns \in 1..2, userCoord \in BOOLEAN :
     \E kinds \in [1..n -> {"TH1", "TF1"}], sizes \in [1..n -> LabelSizes],
        styles \in [1..n -> ErrorStyles] :
       leg = ReadyLegend([title |-> title, nColumns |-> nColumns, x |-> Value(10),
                          y |-> Value(100), userCoord |-> userCoord],
                         CHOOSE pad \in Pads : pad.tickY = 300,
                         <<Prim("TH1", "hist", <<>>, 0, 0, 1)>>, kinds, sizes, styles)

NextLegend == MakeLegendCall

SpecLegendPlace == InitLegendPlace /\ [][NextLegend]_vars

SpecLegendEntries == InitLegendEntries /\ [][NextLegend]_vars

\* ---- claims on MakeLegend
\* MakeLegend has returned for an auto-placed legend box.
AutoPlaced == leg.pc = "done" /\ IsAutoPlacement(leg.legendBox)

\* C13: an auto-placed legend is created and returned whether or not room was found
\* for it.  Without room one warning is printed and the legend's upper left corner is
\* the fallback position: the left end of the x axis plus 1.9 tick lengths, the upper
\* end of the y axis minus 1.9 tick lengths (tick lengths taken in pad coordinates),
\* whatever the legend's size and the pad's primitives.  With room no warning is
\* printed and the legend ends at the right and upper edge of the rectangle the last
\* query returned.
C13_FallbackPosition ==
  AutoPlaced =>
    LET pad == leg.pad
        out == leg.out
        tickLengthX == (pad.tickY * (pad.Uxmax - pad.Uxmin) * NDCUnit) \div (pad.X2 - pad.X1)
        tickLengthY == (pad.tickX * (pad.Uymax - pad.Uymin) * NDCUnit) \div (pad.Y2 - pad.Y1)
        axisLeft == ((pad.Uxmin - pad.X1) * NDCUnit) \div (pad.X2 - pad.X1)
        axisTop == ((pad.Uymax - pad.Y1) * NDCUnit) \div (pad.Y2 - pad.Y1)
        query == PlaceAt(out.placeCalls)
    IN  /\ Len(out.legend.rows) = Len(leg.legendEntries)
        /\ out.legend.x2 - out.legend.x1 = out.totalWidthNDC
        /\ out.legend.y2 - out.legend.y1 = out.totalHeightNDC
        /\ ~out.place.found =>
             /\ out.warnings = 1
             /\ out.legend.x1 = axisLeft + (19 * tickLengthX) \div (10 * NDCUnit)
             /\ out.legend.y2 = axisTop - (19 * tickLengthY) \div (10 * NDCUnit)
        /\ out.place.found =>
             /\ out.warnings = 0
             /\ out.legend.x2 = query.x + out.totalWidthNDC + 2 * MarginX(pad)
             /\ out.legend.y2 = query.y + out.totalHeightNDC + 2 * MarginY(pad)

\* No room was found by the last query although an earlier query had found room.
C13_Witness ==
  /\ AutoPlaced
  /\ ~leg.out.place.found
  /\ leg.out.place.x > 0
  /\ leg.out.warnings = 1
  /\ leg.out.legend.x1 = FallbackX(leg.pad)

\* The pad's list holds none of the four temporary rectangles.
NoMarginBoxes(list) ==
  \A n \in 1..Len(list) : \A k \in 1..Len(MarginBoxes) : list[n] # MarginBoxes[k]

\* C14 as stated: after MakeLegend has returned for an auto-placed legend the pad's
\* list holds none of the four temporary rectangles and is otherwise equal to the
\* list before the call.
C14_ListAsBefore ==
  AutoPlaced =>
    /\ NoMarginBoxes(leg.out.padPrims)
    /\ leg.out.padPrims = leg.padPrims

\* C14 amended: after MakeLegend has returned for an auto-placed legend, with or
\* without room found, the pad's list holds none of the four temporary rectangles
\* and holds the primitives it held before the call, in the same order; what it holds
\* besides was put there by pad->Update() (the pad's frame).
C14_MarginBoxesRemoved ==
  AutoPlaced =>
    LET after == leg.out.padPrims
    IN  /\ NoMarginBoxes(after)
        /\ IsSubsequence(leg.padPrims, after)
        /\ \A n \in 1..Len(after) :
             (\E m \in 1..Len(leg.padPrims) : leg.padPrims[m] = after[n]) \/ after[n] = Frame
        /\ Len(after) <= Len(leg.padPrims) + 1

\* MakeLegend has returned without room found, and the pad was painted for the first
\* time in the call.
C14_Witness ==
  /\ AutoPlaced
  /\ ~leg.out.place.found
  /\ leg.out.placeCalls = Len(leg.padPrims) + 5
  /\ leg.out.padPrims = <<Frame>> \o leg.padPrims

\* C18: with n the number of entries, the box title counted as one more, and h the
\* largest text height, the legend's height is (n + 0.5(n+1)) h / nColumns; for one
\* column and 3 entries without title it is 5h; one more entry does not make it
\* smaller.
C18_TotalHeight ==
  leg.pc = "done" =>
    LET out == leg.out
        titled == leg.legendBox.title.text # ""
        n == Len(leg.legendEntries) + (IF titled THEN 1 ELSE 0)
        h == out.rowHeightNDC
        nColumns == leg.legendBox.nColumns
    IN  /\ \A i \in 1..Len(leg.legendTitles) :
             h * leg.pad.heightPixel >= leg.legendTitles[i].h * NDCUnit
        /\ titled => h * leg.pad.heightPixel >= leg.legendBox.title.h * NDCUnit
        /\ 2 * nColumns * out.totalHeightNDC = (2 * n + (n + 1)) * h
        /\ out.legend.y2 - out.legend.y1 = out.totalHeightNDC
        /\ (nColumns = 1 /\ n = 3 /\ ~titled) => out.totalHeightNDC = 5 * h
        /\ TotalHeightNDC(n + 1, h, nColumns) >= out.totalHeightNDC

\* A legend of two columns with a title and two entries was made.
C18_Witness ==
  /\ leg.pc = "done"
  /\ leg.legendBox.title.text # ""
  /\ leg.legendBox.nColumns = 2
  /\ Len(leg.legendEntries) = 2
  /\ leg.out.rowHeightNDC > 0
  /\ 4 * leg.out.totalHeightNDC = 10 * leg.out.rowHeightNDC

\* C20: the draw style of a legend entry is "l" (line) when its handle is a function
\* or its option string contains "hist", alone or with other tokens, and "ep"
\* (point and error) otherwise.
C20_DrawStyle ==
  leg.pc = "done" =>
    \A i \in 1..Len(leg.out.legend.rows) :
      LET row == leg.out.legend.rows[i]
          line == row.handle.kind = "TF1" \/ Has(leg.errorStyles[i], "hist")
      IN  /\ row.handle = leg.legendEntries[i]
          /\ row.drawStyle = IF line THEN "l" ELSE "ep"

\* ------------------------------------------------------------ ratio division
\* A histogram here is its number of regular bins and its bin contents, bin 0 the
\* underflow and bin nbins+1 the overflow bin.  The contents of a ratio are
\* fractions [num, den] in lowest terms with den > 0.
RECURSIVE GCD(_, _)
GCD(a, b) == IF b = 0 THEN a ELSE GCD(b, a % b)

Abs(a) == IF a < 0 THEN -a ELSE a

\* numeratorValue/denomValue in double, for denomValue # 0.
Quotient(n, d) ==
  LET g == GCD(Abs(n), Abs(d))
      sign == IF d < 0 THEN -1 ELSE 1
  IN  [num |-> sign * (n \div g), den |-> sign * (d \div g)]

Whole(n) == [num |-> n, den |-> 1]

\* ratio->Reset(): every content is 0.
Reset(h) == [nbins |-> h.nbins, content |-> [b \in 0..(h.nbins + 1) |-> Whole(0)]]

\* The test of the denominator is left out.
SplineBinUnguarded(numeratorValue, denomValue) ==
  IF denomValue # 0 THEN Quotient(numeratorValue, denomValue) ELSE Whole(numeratorValue)

\* Line 863: "if(denomValue) ratio->SetBinContent(i, numeratorValue/denomValue)";
\* gives the content of bin i of the ratio.
SplineBin(numeratorValue, denomValue) ==
  IF denomValue # 0 THEN Quotient(numeratorValue, denomValue) ELSE Whole(0)

\* DivideTSpline(TH1*, TH1*), lines 850-866.  evals[i] is what
\* denominatorGraph.Eval(x, &denominatorSpline) gives at the centre of bin i of the
\* numerator.
DivideTSpline(numerator, evals) ==
  [nbins |-> numerator.nbins,
   content |-> [b \in 0..(numerator.nbins + 1) |->
                  IF b \in 1..numerator.nbins
                  THEN SplineBin(numerator.content[b], evals[b])
                  ELSE Reset(numerator).content[b]]]

\* The spline through the bin centres of the denominator, evaluated at the bin
\* centres of the numerator: with the same binning every centre is a knot and the
\* spline has the bin's content there (in exact arithmetic); with another binning
\* it has an interpolated value.
SplineEvals(numerator, denominator) ==
  IF numerator.nbins = denominator.nbins
  THEN {[b \in 1..numerator.nbins |-> denominator.content[b]]}
  ELSE [1..numerator.nbins -> {0, 2}]

\* Line 163, "ratio->Divide(temp)" (TH1::Divide) for histograms of the same binning:
\* every bin, underflow and overflow included, is divided, and a bin whose
\* denominator is 0 is set to 0.
Divide(numerator, denominator) ==
  [nbins |-> numerator.nbins,
   content |-> [b \in 0..(numerator.nbins + 1) |->
                  IF denominator.content[b] # 0
                  THEN Quotient(numerator.content[b], denominator.content[b])
                  ELSE Whole(0)]]

DivHistograms(values) ==
  UNION {{[nbins |-> n, content |-> c] : c \in [0..(n + 1) -> values]} : n \in 1..MaxBins}

InitDivide ==
  /\ InitTool
  /\ leg = Idle
  /\ mrg = Idle
  /\ rat = Idle
  /\ txt = Idle
  /\ axs = Idle
  /\ \E numerator \in DivHistograms({0, 2, 3}), denominator \in DivHistograms({0, 2}) :
       div = [pc |-> "ready", numerator |-> numerator, denominator |-> denominator]

\* One call of DivideTSpline.
DivideTSplineCall ==
  /\ div.pc = "ready"
  /\ \E evals \in SplineEvals(div.numerator, div.denominator) :
       div' = [pc |-> "done", by |-> "DivideTSpline", numerator |-> div.numerator,
               denominator |-> div.denominator,
               ratio |-> DivideTSpline(div.numerator, evals)]
  /\ UNCHANGED <<plotVars, cutVars, leg, mrg, rat, txt, axs>>

\* The division of line 163.
DivideCall ==
  /\ div.pc = "ready"
  /\ div.numerator.nbins = div.denominator.nbins
  /\ div' = [pc |-> "done", by |-> "Divide", numerator |-> div.numerator,
             denominator |-> div.denominator,
             ratio |-> Divide(div.numerator, div.denominator)]
  /\ UNCHANGED <<plotVars, cutVars, leg, mrg, rat, txt, axs>>

NextDivide == DivideTSplineCall \/ DivideCall

SpecDivide == InitDivide /\ [][NextDivide]_vars

MergeOptionalLeft(base, override) == IF base.set THEN base ELSE override

\* A scalar optional field: the override's value if it has one.
MergeOptional(base, override) == IF override.set THEN override ELSE base

\* The override's elements come first.
MergeSequenceReversed(base, override) == override \o base

\* An ordered collection: the override's elements after the base's.
MergeSequence(base, override) == base \o override

MergeAxis(base, override) == [title |-> MergeOptional(base.title, override.title)]

\* A keyed collection, the axis map of a pad: the union of the keys; the axes of a key
\* that is in both are merged, the axis of a key in one only is copied.
MergeAxes(base, override) ==
  [x \in (DOMAIN base) \cup (DOMAIN override) |->
     IF x \in DOMAIN base /\ x \in DOMAIN override THEN MergeAxis(base[x], override[x])
     ELSE IF x \in DOMAIN base THEN base[x]
     ELSE override[x]]

MergePad(base, override) ==
  [title |-> MergeOptional(base.title, override.title),
   axes |-> MergeAxes(base.axes, override.axes),
   data |-> MergeSequence(base.data, override.data),
   legendBoxes |-> MergeSequence(base.legendBoxes, override.legendBoxes),
   textBoxes |-> MergeSequence(base.textBoxes, override.textBoxes)]

\* The pad map of a plot, as the axis map.
MergePads(base, override) ==
  [k \in (DOMAIN base) \cup (DOMAIN override) |->
     IF k \in DOMAIN base /\ k \in DOMAIN override THEN MergePad(base[k], override[k])
     ELSE IF k \in DOMAIN base THEN base[k]
     ELSE override[k]]

MergePlot(base, override) ==
  [width |-> MergeOptional(base.width, override.width),
   pads |-> MergePads(base.pads, override.pads)]

\* Scalar optionals: unset, or one of two values.
Optionals == {Unset, Value(1), Value(2)}

\* Plots of one pad with one axis, with any scalar fields.
ScalarPlots ==
  {[width |-> w,
    pads |-> [k \in {1} |->
                [title |-> t, axes |-> [x \in {"X"} |-> [title |-> a]],
                 data |-> <<>>, legendBoxes |-> <<>>, textBoxes |-> <<>>]]] :
     w \in Optionals, t \in Optionals, a \in Optionals}

\* Pads with the axes of keys, whose elements and set fields carry the mark v.
MarkedPad(keys, v, filled) ==
  [title |-> IF filled THEN Value(v) ELSE Unset,
   axes |-> [x \in keys |-> [title |-> Value(v)]],
   data |-> IF filled THEN <<[name |-> "data", of |-> v]>> ELSE <<>>,
   legendBoxes |-> IF filled THEN <<[type |-> "legend", of |-> v]>> ELSE <<>>,
   textBoxes |-> IF filled THEN <<[type |-> "text", of |-> v]>> ELSE <<>>]

\* Plots with any of the pads 1 and 2, pad 1 with any of the axes X and Y.
CollectionPlots ==
  {[width |-> Value(v),
    pads |-> [k \in padKeys |-> IF k = 1 THEN MarkedPad(axisKeys, v, filled)
                                ELSE MarkedPad({"X"}, v, TRUE)]] :
     v \in {1, 2}, padKeys \in SUBSET {1, 2}, axisKeys \in SUBSET {"X", "Y"},
     filled \in BOOLEAN}

InitMerge ==
  /\ InitTool
  /\ leg = Idle
  /\ div = Idle
  /\ rat = Idle
  /\ txt = Idle
  /\ axs = Idle
  /\ \E plots \in {ScalarPlots, CollectionPlots} :
     \E a \in plots, b \in plots, c \in plots :
       mrg = [pc |-> "ready", a |-> a, b |-> b, c |-> c]

\* The three layers are merged, in both groupings.
MergeLayers ==
  /\ mrg.pc = "ready"
  /\ mrg' = [pc |-> "done", a |-> mrg.a, b |-> mrg.b, c |-> mrg.c,
             ab |-> MergePlot(mrg.a, mrg.b),
             bc |-> MergePlot(mrg.b, mrg.c),
             left |-> MergePlot(MergePlot(mrg.a, mrg.b), mrg.c),
             right |-> MergePlot(mrg.a, MergePlot(mrg.b, mrg.c))]
  /\ UNCHANGED <<plotVars, cutVars, leg, div, rat, txt, axs>>

NextMerge == MergeLayers

SpecMerge == InitMerge /\ [][NextMerge]_vars

\* ---- claims on the merge
\* The scalar fields of a plot: its width, the title of pad k, the title of axis x
\* of pad k (unset where the plot has no such pad or axis).
PadTitle(plot, k) == IF k \in DOMAIN plot.pads THEN plot.pads[k].title ELSE Unset

AxisTitle(plot, k, x) ==
  IF k \in DOMAIN plot.pads /\ x \in DOMAIN plot.pads[k].axes
  THEN plot.pads[k].axes[x].title ELSE Unset

\* The value of the rightmost of three layers in which a field is set.
Rightmost(a, b, c) == IF c.set THEN c ELSE IF b.set THEN b ELSE a

\* C15: every scalar field of (A + B) + C equals the same field of A + (B + C) and is
\* the value of the rightmost layer in which the field is set, unset if it is set in
\* none.
C15_RightBiasedAssociative ==
  mrg.pc = "done" =>
    /\ mrg.left.width = mrg.right.width
    /\ mrg.left.width = Rightmost(mrg.a.width, mrg.b.width, mrg.c.width)
    /\ \A k \in {1, 2} :
         /\ PadTitle(mrg.left, k) = PadTitle(mrg.right, k)
         /\ PadTitle(mrg.left, k) =
              Rightmost(PadTitle(mrg.a, k), PadTitle(mrg.b, k), PadTitle(mrg.c, k))
         /\ \A x \in {"X", "Y"} :
              /\ AxisTitle(mrg.left, k, x) = AxisTitle(mrg.right, k, x)
              /\ AxisTitle(mrg.left, k, x) =
                   Rightmost(AxisTitle(mrg.a, k, x), AxisTitle(mrg.b, k, x),
                             AxisTitle(mrg.c, k, x))

\* Three layers were merged whose pad titles are set to one value, set to another
\* and unset.
C15_Witness ==
  /\ mrg.pc = "done"
  /\ PadTitle(mrg.a, 1) = Value(1)
  /\ PadTitle(mrg.b, 1) = Value(2)
  /\ 1 \in DOMAIN mrg.c.pads
  /\ PadTitle(mrg.c, 1) = Unset
  /\ PadTitle(mrg.left, 1) = Value(2)
  /\ AxisTitle(mrg.left, 1, "X") = AxisTitle(mrg.c, 1, "X")

\* base and override were merged into merged as keyed collections: merged has the
\* keys of both, and the element of a key that is in one only is that element.
KeysUnited(base, override, merged) ==
  /\ DOMAIN merged = (DOMAIN base) \cup (DOMAIN override)
  /\ \A k \in (DOMAIN base) \ (DOMAIN override) : merged[k] = base[k]
  /\ \A k \in (DOMAIN override) \ (DOMAIN base) : merged[k] = override[k]

\* C16: the pad map of a merged plot and the axis map of a merged pad have the keys of
\* base and override; a key in one only has that one's element, a key in both the
\* merge of the two elements; the data sequence and the box sequences of a merged pad
\* are the base's followed by the override's.
C16_CollectionsMerged ==
  mrg.pc = "done" =>
    LET base == mrg.a.pads
        override == mrg.b.pads
        merged == mrg.ab.pads
    IN  /\ KeysUnited(base, override, merged)
        /\ \A k \in (DOMAIN base) \cap (DOMAIN override) :
             /\ merged[k].title = Rightmost(Unset, base[k].title, override[k].title)
             /\ KeysUnited(base[k].axes, override[k].axes, merged[k].axes)
             /\ \A x \in (DOMAIN base[k].axes) \cap (DOMAIN override[k].axes) :
                  merged[k].axes[x].title =
                    Rightmost(Unset, base[k].axes[x].title, override[k].axes[x].title)
             /\ merged[k].data = base[k].data \o override[k].data
             /\ merged[k].legendBoxes = base[k].legendBoxes \o override[k].legendBoxes
             /\ merged[k].textBoxes = base[k].textBoxes \o override[k].textBoxes

\* Two plots were merged that share pad 1, each with a pad or an axis the other
\* lacks and with data of its own.
C16_Witness ==
  /\ mrg.pc = "done"
  /\ DOMAIN mrg.a.pads = {1}
  /\ DOMAIN mrg.b.pads = {1, 2}
  /\ DOMAIN mrg.a.pads[1].axes = {"X", "Y"}
  /\ DOMAIN mrg.b.pads[1].axes = {"X"}
  /\ mrg.a.width # mrg.b.width
  /\ Len(mrg.ab.pads[1].data) = 2
  /\ mrg.ab.pads[1].data[1] = mrg.a.pads[1].data[1]
  /\ mrg.ab.pads[1].data[2] = mrg.b.pads[1].data[1]
  /\ mrg.ab.pads[2] = mrg.b.pads[2]

\* ------------------------------------------------- Data and Ratio setters
\* The display-range clamps of a series: dataRange_t mRangeX and mRangeY, each an
\* optional min and an optional max.
ClampValues == {Unset, Value(1), Value(2)}

DataObjects ==
  [mRangeX : [min : ClampValues, max : ClampValues],
   mRangeY : [min : ClampValues, max : ClampValues]]

SetterNames ==
  {"SetRangeX", "SetMaxRangeX", "SetMinRangeX", "UnsetRangeX",
   "SetRangeY", "SetMaxRangeY", "SetMinRangeY", "UnsetRangeY"}

\* Data's range setter of that name, called on d with the arguments a, b (a alone
\* for the setters of one bound; none for the Unset setters).
DataSetter(name, d, a, b) ==
  CASE name = "SetRangeX" -> [d EXCEPT !.mRangeX = [min |-> Value(a), max |-> Value(b)]]
    [] name = "SetMaxRangeX" -> [d EXCEPT !.mRangeX.max = Value(a)]
    [] name = "SetMinRangeX" -> [d EXCEPT !.mRangeX.min = Value(a)]
    [] name = "UnsetRangeX" -> [d EXCEPT !.mRangeX = [min |-> Unset, max |-> Unset]]
    [] name = "SetRangeY" -> [d EXCEPT !.mRangeY = [min |-> Value(a), max |-> Value(b)]]
    [] name = "SetMaxRangeY" -> [d EXCEPT !.mRangeY.max = Value(a)]
    [] name = "SetMinRangeY" -> [d EXCEPT !.mRangeY.min = Value(a)]
    [] name = "UnsetRangeY" -> [d EXCEPT !.mRangeY = [min |-> Unset, max |-> Unset]]

\* Ratio's range setter of that name (Plot.h 486-493): each returns what the Data
\* setter it calls returns.
RatioSetter(name, d, a, b) ==
  CASE name = "SetRangeX" -> DataSetter("SetRangeX", d, a, b)
    [] name = "SetMaxRangeX" -> DataSetter("SetMaxRangeX", d, a, b)
    [] name = "SetMinRangeX" -> DataSetter("SetMinRangeX", d, a, b)
    [] name = "UnsetRangeX" -> DataSetter("UnsetRangeY", d, a, b)
    [] name = "SetRangeY" -> DataSetter("SetRangeY", d, a, b)
    [] name = "SetMaxRangeY" -> DataSetter("SetMaxRangeY", d, a, b)
    [] name = "SetMinRangeY" -> DataSetter("SetMinRangeY", d, a, b)
    [] name = "UnsetRangeY" -> DataSetter("UnsetRangeY", d, a, b)

\* A Data and a Ratio object with the same clamps.
InitSetters ==
  /\ InitTool
  /\ leg = Idle
  /\ mrg = Idle
  /\ div = Idle
  /\ txt = Idle
  /\ axs = Idle
  /\ \E d \in DataObjects : rat = [pc |-> "ready", before |-> d]

\* The same setter is called on both, with the same arguments.
SetterCall ==
  /\ rat.pc = "ready"
  /\ \E name \in SetterNames, a \in 1..2, b \in 1..2 :
       rat' = [pc |-> "done", before |-> rat.before, name |-> name,
               data |-> DataSetter(name, rat.before, a, b),
               ratio |-> RatioSetter(name, rat.before, a, b)]
  /\ UNCHANGED <<plotVars, cutVars, leg, mrg, div, txt, axs>>

SpecSetters == InitSetters /\ [][SetterCall]_vars

\* ---- claims on the setters
\* C30: every Ratio setter changes exactly the fields the Data setter of the same
\* name changes; Ratio::UnsetRangeX unsets the X clamps and leaves the Y clamps.
C30_RatioSetterAsData ==
  rat.pc = "done" => rat.ratio = rat.data

\* ---------------------------------------------------------------- MakeText
\* A text is the sequence of its characters.
Characters == {"a", " ", "/"}

\* string delimiter = " // ";
Delimiter == <<" ", "/", "/", " ">>

\* pat is in text at place n (the first character is place 1).
MatchesAt(text, pat, n) ==
  /\ n + Len(pat) - 1 <= Len(text)
  /\ \A i \in 1..Len(pat) : text[n + i - 1] = pat[i]

\* text.find(pat): the first place, 0 for npos.
Find(text, pat) ==
  IF \E n \in 1..Len(text) : MatchesAt(text, pat, n)
  THEN CHOOSE n \in 1..Len(text) :
         MatchesAt(text, pat, n) /\ \A m \in 1..(n - 1) : ~MatchesAt(text, pat, m)
  ELSE 0

\* Lines 695-701, one pass of the do-while body on the text that is left: the token,
\* the text after the erase, and the loop condition.
SplitPass(text) ==
  LET pos == Find(text, Delimiter)
  IN  IF pos = 0 THEN [token |-> text, rest |-> <<>>, again |-> FALSE]
      ELSE [token |-> SubSeq(text, 1, pos - 1),
            rest |-> SubSeq(text, pos + Len(Delimiter), Len(text)),
            again |-> TRUE]

\* Line 707: textSizeNDC = textSizePixel / gPad->YtoPixel(gPad->GetY1()), with
\* textSizePixel = 24.
TextSizeNDC(pad) == (24 * NDCUnit) \div pad.heightPixel

\* Line 708: textSizeNDCx = 0.6*textSizePixel / gPad->XtoPixel(gPad->GetX2()).
TextSizeNDCx(pad) == (6 * 24 * NDCUnit) \div (10 * pad.widthPixel)

\* The height without the half-row spacing between the lines.
TextHeightNoSpacing(nLines, textSizeNDC) == nLines * textSizeNDC

\* Line 711: yWidth = (1.0*nLines + 0.5*(nLines-1)) * textSizeNDC.
TextHeight(nLines, textSizeNDC) == ((2 * nLines + (nLines - 1)) * textSizeNDC) \div 2

\* Line 712: xWidth = nLetters * textSizeNDCx.
TextWidth(nLetters, textSizeNDCx) == nLetters * textSizeNDCx

\* Lines 728-736: boxExtent, the largest rendered width of a line in pixels; every
\* character is rendered charPixel wide.
BoxExtent(lines, charPixel) ==
  IF lines = <<>> THEN 0
  ELSE LET widest == CHOOSE n \in 1..Len(lines) : \A m \in 1..Len(lines) : Len(lines[m]) <= Len(lines[n])
       IN  Len(lines[widest]) * charPixel

\* Lines 705-748, after the loop: the TPaveText.  It is constructed with the corners
\* (upperLeftX, upperLeftY - yWidth, upperLeftX + xWidth, upperLeftY); SetBBoxX2 then
\* puts its right edge boxExtent + 2*margin pixels right of its left edge, with
\* margin = 0.5*textSizePixel.
BuildText(textBox, pad, lines, nLetters, charPixel) ==
  LET yWidth == TextHeight(Len(lines), TextSizeNDC(pad))
      xWidth == TextWidth(nLetters, TextSizeNDCx(pad))
      x0 == GetPosition(textBox.x)
      y0 == GetPosition(textBox.y)
      upperLeftX == IF textBox.userCoord
                    THEN ((x0 - pad.X1 * NDCUnit) \div (pad.X2 - pad.X1)) ELSE x0
      upperLeftY == IF textBox.userCoord
                    THEN ((y0 - pad.Y1 * NDCUnit) \div (pad.Y2 - pad.Y1)) ELSE y0
  IN  [lines |-> lines,
       xWidth |-> xWidth,
       yWidth |-> yWidth,
       x1 |-> upperLeftX,
       y1 |-> upperLeftY - yWidth,
       x2 |-> upperLeftX + ((BoxExtent(lines, charPixel) + 24) * NDCUnit) \div pad.widthPixel,
       y2 |-> upperLeftY]

\* ---- inputs of MakeText
Texts == UNION {[1..n -> Characters] : n \in 0..MaxTextLen}

TextPad == [X1 |-> -10, X2 |-> 90, Y1 |-> -20, Y2 |-> 180, widthPixel |-> 720, heightPixel |-> 480]

\* The rendered width of one character in pixels.
CharPixels == {12, 16}

\* MakeText is entered: any text, a position in NDC or in user coordinates.
InitText ==
  /\ InitTool
  /\ leg = Idle
  /\ mrg = Idle
  /\ div = Idle
  /\ rat = Idle
  /\ axs = Idle
  /\ \E text \in Texts, userCoord \in BOOLEAN, charPixel \in CharPixels :
       txt = [pc |-> "split",
              textBox |-> [text |-> text, x |-> Value(2000), y |-> Value(8000),
                           userCoord |-> userCoord],
              pad |-> TextPad, charPixel |-> charPixel,
              text |-> text, lines |-> <<>>, nLetters |-> 0]

\* One pass of the do-while loop of lines 694-702 (nLetters: line 697).
SplitStep ==
  /\ txt.pc = "split"
  /\ LET pass == SplitPass(txt.text)
     IN  txt' = [txt EXCEPT !.text = pass.rest,
                            !.lines = Append(txt.lines, pass.token),
                            !.nLetters = IF Len(pass.token) > txt.nLetters
                                         THEN Len(pass.token) ELSE txt.nLetters,
                            !.pc = IF pass.again THEN "split" ELSE "sized"]
  /\ UNCHANGED <<plotVars, cutVars, leg, mrg, div, rat, axs>>

\* The rest of MakeText, lines 705-748.
ReturnText ==
  /\ txt.pc = "sized"
  /\ txt' = [pc |-> "done", textBox |-> txt.textBox, pad |-> txt.pad,
             charPixel |-> txt.charPixel,
             out |-> BuildText(txt.textBox, txt.pad, txt.lines, txt.nLetters, txt.charPixel)]
  /\ UNCHANGED <<plotVars, cutVars, leg, mrg, div, rat, axs>>

NextText ==
  \/ SplitStep
  \/ ReturnText

SpecText == InitText /\ [][NextText]_vars

\* ---- claims on MakeText
\* The non-overlapping occurrences of the delimiter in the text: the largest number
\* of places of the delimiter no two of which overlap.
NumDelimiters(text) ==
  LET places == {n \in 1..Len(text) : MatchesAt(text, Delimiter, n)}
      apart == {S \in SUBSET places :
                  \A a, b \in S : a # b => (a - b >= Len(Delimiter) \/ b - a >= Len(Delimiter))}
  IN  CHOOSE k \in 0..Len(text) :
        /\ \E S \in apart : Cardinality(S) = k
        /\ \A S \in apart : Cardinality(S) <= k

\* The lines put together again with the delimiter between them.
RECURSIVE JoinLines(_)
JoinLines(lines) ==
  IF Len(lines) = 0 THEN <<>>
  ELSE IF Len(lines) = 1 THEN lines[1]
  ELSE lines[1] \o Delimiter \o JoinLines(Tail(lines))

\* The character count of the longest line.
LongestLine(lines) ==
  CHOOSE k \in 0..MaxTextLen :
    /\ \E n \in 1..Len(lines) : Len(lines[n]) = k
    /\ \A n \in 1..Len(lines) : Len(lines[n]) <= k

\* The splitting and the height: the loop makes at most one pass per delimiter and
\* one more, and the TPaveText has one line more than the text has delimiters, the
\* lines joined give the text, the height is (n + 0.5*(n-1)) rows.
SplitAndHeight ==
  /\ txt.pc \in {"split", "sized"} => Len(txt.lines) <= NumDelimiters(txt.textBox.text) + 1
  /\ txt.pc = "done" =>
       LET n == Len(txt.out.lines)
       IN  /\ n = NumDelimiters(txt.textBox.text) + 1
           /\ JoinLines(txt.out.lines) = txt.textBox.text
           /\ 2 * (txt.out.y2 - txt.out.y1) = (2 * n + (n - 1)) * TextSizeNDC(txt.pad)

\* C27 as stated: the loop terminates, the lines are the delimiters plus 1 and give
\* back the text, the box height is (n + 0.5*(n-1)) text rows, and the box width is
\* the character count of the longest line times the per-character width.
C27_TextBoxAsStated ==
  /\ SplitAndHeight
  /\ txt.pc = "done" =>
       txt.out.x2 - txt.out.x1 = LongestLine(txt.out.lines) * TextSizeNDCx(txt.pad)

\* C27, amended: the splitting and the height as stated; the box is constructed
\* with the width of the longest line's character count times the per-character
\* width, and its right edge is then put at the rendered width of the widest line
\* plus one text row (two margins of half a row) from its left edge.
C27_TextBoxAmended ==
  /\ SplitAndHeight
  /\ txt.pc = "done" =>
       /\ txt.out.xWidth = LongestLine(txt.out.lines) * TextSizeNDCx(txt.pad)
       /\ txt.out.x2 - txt.out.x1 =
            ((LongestLine(txt.out.lines) * txt.charPixel + 24) * NDCUnit) \div txt.pad.widthPixel

\* A text of two lines of different lengths, neither empty.
C27_Witness ==
  /\ txt.pc = "done"
  /\ Len(txt.out.lines) = 2
  /\ Len(txt.out.lines[1]) > Len(txt.out.lines[2])
  /\ Len(txt.out.lines[2]) > 0

\* ------------------------------------------- GeneratePlot: axis settings
\* Lines 351-388 for one pad that has an axis histogram: the ranges and titles the
\* pad's axis object is given.
AxisKeys == {"X", "Y", "Z"}

\* An axis of the plot: plot.IsAxisDefined(pad, key), and the optional range and
\* title of plot.GetAxis(pad, key).  No axis is [defined |-> FALSE, ...].
NoAxis == [defined |-> FALSE, range |-> Unset, title |-> Unset]

\* The axes pad p can declare: its range and its title are told from those of the
\* other pads by their value.
PadAxes(p) ==
  {NoAxis} \cup [defined : {TRUE}, range : {Unset, Value(p)}, title : {Unset, Value(10 + p)}]

\* plotStyle.GetLinkedPads(key, padID): a list of distinct pads.
LinkedPadLists ==
  {l \in UNION {[1..n -> 1..MaxPads] : n \in 0..MaxLinked} :
     \A i, j \in DOMAIN l : l[i] = l[j] => i = j}

\* Lines 358-375, one key: every linked pad whose axis has a range sets the range of
\* the axis object, in the order of the list.
RECURSIVE LinkedRange(_, _, _, _)
LinkedRange(axes, key, linked, range) ==
  IF linked = <<>> THEN range
  ELSE LET a == axes[Head(linked)][key]
       IN  LinkedRange(axes, key, Tail(linked),
                       IF a.defined /\ a.range.set THEN a.range ELSE range)

\* Lines 377-388, one key: the title of the pad's own axis.
OwnAxisTitle(axes, key, id, title) ==
  IF axes[id][key].defined /\ axes[id][key].title.set THEN axes[id][key].title ELSE title

\* A pad, the plot's axes for one key (the other keys have no axis and no link) and
\* the lists GetLinkedPads returns for the pad.
InitAxes ==
  /\ InitTool
  /\ leg = Idle
  /\ mrg = Idle
  /\ div = Idle
  /\ rat = Idle
  /\ txt = Idle
  /\ \E id \in 1..MaxPads, key \in AxisKeys, linked \in LinkedPadLists :
     \E keyAxes \in [1..MaxPads -> UNION {PadAxes(p) : p \in 1..MaxPads}] :
       /\ \A p \in 1..MaxPads : keyAxes[p] \in PadAxes(p)
       /\ axs = [pc |-> "ready",
                 padID |-> id,
                 axes |-> [p \in 1..MaxPads |->
                             [k \in AxisKeys |-> IF k = key THEN keyAxes[p] ELSE NoAxis]],
                 linked |-> [k \in AxisKeys |-> IF k = key THEN linked ELSE <<>>]]

\* The axis settings of the pad: the object starts with no range and no title set
\* by GeneratePlot.
SetAxes ==
  /\ axs.pc = "ready"
  /\ axs' = [pc |-> "done", padID |-> axs.padID, axes |-> axs.axes, linked |-> axs.linked,
             axisHist |-> [k \in AxisKeys |->
                [range |-> LinkedRange(axs.axes, k, axs.linked[k], Unset),
                 title |-> OwnAxisTitle(axs.axes, k, axs.padID, Unset)]]]
  /\ UNCHANGED <<plotVars, cutVars, leg, mrg, div, rat, txt>>

SpecAxes == InitAxes /\ [][SetAxes]_vars

\* ---- claims on the axis settings
\* C26: for every axis key and every pad linked to a representative pad, a range the
\* representative defines for the axis is applied to the pad's axis object, and so
\* is a title it defines.
C26_LinkedRangeAndTitle ==
  axs.pc = "done" =>
    \A k \in AxisKeys : \A n \in 1..Len(axs.linked[k]) :
      LET a == axs.axes[axs.linked[k][n]][k]
      IN  /\ (a.defined /\ a.range.set) => axs.axisHist[k].range = a.range
          /\ (a.defined /\ a.title.set) => axs.axisHist[k].title = a.title

\* ------------------------------------------------- claims on GeneratePlot
\* A primitive that takes a place in the pad's draw order: a drawn series, or the
\* synthetic reference line of a ratio.
TakesPlace(p) == p.src > 0 \/ (p.kind = "TF1" /\ p.name = "line")

\* The draw-order index of primitive n of the pad: the series drawn before it plus
\* the reference entries drawn before it.
DrawIndex(n) == Cardinality({m \in 1..(n - 1) : TakesPlace(prims[m])})

\* The number of places taken in the pad so far.
PlacesTaken == Cardinality({m \in 1..Len(prims) : TakesPlace(prims[m])})

\* The drawn series of the pad: the places in prims of primitives drawn for a series.
DrawnSeries == {n \in 1..Len(prims) : prims[n].src > 0}

\* C1: a series without explicit color drawn at draw-order index i has the color
\* colorList[i mod L].
C1_DefaultColorAtIndex ==
  \A n \in DrawnSeries :
    data[prims[n].src].color = 0 =>
      prims[n].color = colorList[(DrawIndex(n) % listLen) + 1]

\* C2: a series of any kind with explicit color -k drawn at draw-order index i,
\* 1 <= k <= i, has the color colorList[(i - k) mod L], the color of a series
\* without explicit color at index i - k.
C2_NegativeColorAtIndex ==
  \A n \in DrawnSeries :
    LET c == data[prims[n].src].color
    IN  (c < 0 /\ -c <= DrawIndex(n)) =>
          prims[n].color = colorList[((DrawIndex(n) + c) % listLen) + 1]

\* C3: a negative color does not change the draw position: whenever the series loop
\* is about to take a series, the index it resolves the styles with is the number of
\* places taken in the pad (which is what it is when no color is negative).
C3_IndexIsDrawPosition ==
  pc = "series" => dataIndex = PlacesTaken

\* Without negative colors the index is the number of places taken.
IndexIsDrawPositionWithoutNegativeColors ==
  (pc = "series" /\ \A n \in 1..Len(data) : data[n].color >= 0) => dataIndex = PlacesTaken

\* C4: a series without explicit style drawn at draw-order index i has the marker
\* markerList[i mod L], and one with explicit style -k, k <= i, has
\* markerList[(i - k) mod L], whatever its color value.
C4_MarkerAtIndex ==
  \A n \in DrawnSeries :
    LET st == data[prims[n].src].style
    IN  /\ st = 0 => prims[n].style = markerList[(DrawIndex(n) % listLen) + 1]
        /\ (st < 0 /\ -st <= DrawIndex(n)) =>
             prims[n].style = markerList[((DrawIndex(n) + st) % listLen) + 1]

\* C10: with fewer pads in the style than the plot requires, no canvas and no pad is
\* created and nothing is drawn, and GeneratePlot ends with a null result and one
\* reported error.
C10_MismatchReturnsNull ==
  stylePads < requiredPads =>
    /\ ~canvasCreated
    /\ canvasPads = <<>>
    /\ prims = <<>>
    /\ directives = <<>>
    /\ errors <= 1
    /\ pc \in {"start", "done"}
    /\ pc = "done" => (result = "null" /\ errors = 1)

\* GeneratePlot has returned for a style with fewer pads than required.
C10_Witness ==
  /\ pc = "done"
  /\ stylePads < requiredPads
  /\ result = "null"

\* C11: a series that is skipped (its object is not in the data pool or has the wrong
\* kind, or its data kind is not recognised) has no draw directive, no primitive and
\* no legend entry in its pad, and the series and the pads after it are still
\* processed: GeneratePlot does not end before the last pad of the style.
C11_SkipAndContinue ==
  \A n \in 1..cursor :
    Skipped(data[n]) =>
      /\ \A m \in 1..Len(directives) : directives[m].src # n
      /\ \A m \in 1..Len(prims) : prims[m].src # n
      /\ \A j \in 1..Len(lables) : lables[j] # n /\ legendEntries[j].src # n
      /\ pc = "done" => (result = "canvas" /\ padIter = stylePads)

\* C12: a pad whose primitives hold no histogram, graph or function does not end
\* GeneratePlot: the pads after it are rendered and the canvas is returned.
C12_PadWithoutAxisObject ==
  (prims # <<>> /\ ~HasAxisObject(prims)) =>
    /\ result # "crash"
    /\ pc = "done" => (result = "canvas" /\ padIter = stylePads)

\* The places in data of the series taken so far that were drawn and have a label,
\* in the order they were taken.
RECURSIVE LabelledUpTo(_)
LabelledUpTo(n) ==
  IF n = 0 THEN <<>>
  ELSE IF ~Skipped(data[n]) /\ data[n].label THEN Append(LabelledUpTo(n - 1), n)
  ELSE LabelledUpTo(n - 1)

\* C19: lables, legendEntries and errorStyles have the same length and hold one entry
\* for every drawn series with a label, in draw order; entry j names the j-th such
\* series, its handle is the primitive drawn for that series and its error style is
\* the series' option string.  Unlabelled and skipped series have no entry.
C19_LegendListsParallel ==
  LET want == LabelledUpTo(cursor)
  IN  /\ Len(lables) = Len(want)
      /\ Len(legendEntries) = Len(want)
      /\ Len(errorStyles) = Len(want)
      /\ \A j \in 1..Len(want) :
           /\ lables[j] = want[j]
           /\ legendEntries[j].src = want[j]
           /\ \E m \in 1..Len(prims) : prims[m] = legendEntries[j]
           /\ errorStyles[j] = data[want[j]].opts

\* The series loop of a pad is over; a skipped series and an unlabelled drawn series
\* came before two labelled ones.
C19_Witness ==
  /\ pc = "boxes"
  /\ Len(lables) = 2
  /\ cursor >= 3
  /\ lables[1] > 1
  /\ \E n \in 1..cursor : Skipped(data[n]) \/ ~data[n].label
  /\ legendEntries[1] # legendEntries[2]

\* C21: the k-th pad of the style is given the pad number k and renders the plot's pad
\* k, also after a pad that ended up empty or without axis object; no two pads of
\* the canvas have the same number.
C21_PadNumbersAscending ==
  /\ \A k \in 1..Len(canvasPads) : canvasPads[k] = k
  /\ \A k, m \in 1..Len(canvasPads) : canvasPads[k] = canvasPads[m] => k = m
  /\ pc \in {"series", "boxes", "axes"} => padID = padIter

\* The text boxes declared in the pad up to box n, in declared order.
RECURSIVE TextBoxesUpTo(_)
TextBoxesUpTo(n) ==
  IF n = 0 THEN <<>>
  ELSE IF boxes[n] = "text" THEN Append(TextBoxesUpTo(n - 1), n)
  ELSE TextBoxesUpTo(n - 1)

\* The TPaveText primitives of the pad, in the order of the list.
RECURSIVE TextPrims(_)
TextPrims(n) ==
  IF n = 0 THEN <<>>
  ELSE IF prims[n].kind = "TPaveText" THEN Append(TextPrims(n - 1), prims[n])
  ELSE TextPrims(n - 1)

\* C29: when the box loop of a pad is over, every text box declared in the pad was
\* drawn, in declared order, under the names TextBox_1, TextBox_2, ..., whether or
\* not the pad has a labelled series.
C29_EveryTextBoxDrawn ==
  pc = "axes" =>
    LET drawn == TextPrims(Len(prims))
    IN  /\ Len(drawn) = Len(TextBoxesUpTo(Len(boxes)))
        /\ \A j \in 1..Len(drawn) : drawn[j].name = j

\* The series taken so far that were drawn, as places in data.
DrawnData == {n \in 1..cursor : ~Skipped(data[n])}

\* The reference lines of the pad, as places in prims.
ReferenceLines == {n \in 1..Len(prims) : prims[n].kind = "TF1" /\ prims[n].name = "line"}

\* C22: in a pad with 1-D ratio series the black reference line at 1 is drawn exactly
\* once, immediately before the first ratio series actually drawn, for every sequence
\* of series.
C22_ReferenceLineOnce ==
  LET ratios == {n \in DrawnData : data[n].type = "ratio"}
  IN  /\ Cardinality(ReferenceLines) = (IF ratios = {} THEN 0 ELSE 1)
      /\ \A n \in ReferenceLines :
            /\ prims[n].color = 1
            /\ n < Len(prims)
            /\ prims[n + 1].name = "ratio"
            /\ \A m \in ratios : prims[n + 1].src <= m

\* C23: "AP" is in a graph's options exactly when the graph is the first series drawn
\* in its pad, and every series drawn after the first has "SAME".
C23_AxesOnFirstGraphOnly ==
  \A n \in DrawnSeries :
    LET isFirst == \A m \in DrawnSeries : n <= m
    IN  /\ prims[n].kind = "TGraph" => (Has(prims[n].opt, "AP") <=> isFirst)
        /\ ~isFirst => Has(prims[n].opt, "SAME")

\* C24: for a series drawn with "boxes" the directives are added in the order: widen
\* the error-bar half-width, the series' own draw directive with "E2", restore.
C24_WidenDrawRestore ==
  \A n \in 1..Len(directives) :
    directives[n] = ErrorBoxesOn =>
      /\ n + 2 <= Len(directives)
      /\ directives[n + 1].src > 0
      /\ Has(directives[n + 1].opt, "E2")
      /\ directives[n + 2] = ErrorBoxesOff

\* C28: a skipped series leaves no trace on later series: the step that skips it
\* leaves the option string and the draw-order index as they were.
C28_SkipLeavesNoTrace ==
  [][(pc = "series" /\ cursor' = cursor + 1 /\ Skipped(data'[cursor']))
       => (dataIndex' = dataIndex /\ drawingOptions' = drawingOptions)]_vars

\* ------------------------------------------------------- specification
\* Any style and plot of up to MaxPads pads.
Init ==
  /\ \E nPads \in 1..MaxPads, nRequired \in 1..MaxPads : InitPlot("pads", nPads, nRequired, 1)
  /\ NoCut
  /\ NoTools

\* A style of one pad, with default lists of any length up to MaxListLen.
InitStyle ==
  /\ \E nRequired \in 1..2, len \in 1..MaxListLen : InitPlot("style", 1, nRequired, len)
  /\ NoCut
  /\ NoTools

Next ==
  \/ Mismatch
  \/ CreateCanvas
  \/ BeginPad
  \/ Series
  \/ EndSeries
  \/ Box
  \/ EndBoxes
  \/ EmptyPad
  \/ NullAxisObject
  \/ FinalizePad
  \/ Finish

Spec == Init /\ [][Next]_vars

\* GeneratePlot for a plot without boxes.
NextStyle ==
  \/ Mismatch
  \/ CreateCanvas
  \/ BeginPad
  \/ Series
  \/ EndSeries
  \/ EndBoxes
  \/ EmptyPad
  \/ FinalizePad
  \/ Finish

SpecStyle == InitStyle /\ [][NextStyle]_vars

\* A style of one pad whose series vary in their drawing options.
InitOptions ==
  /\ \E nRequired \in 1..2 : InitPlot("options", 1, nRequired, 1)
  /\ NoCut
  /\ NoTools

SpecOptions == InitOptions /\ [][NextStyle]_vars

====
